---- MODULE Spec2Model ----
(***************************************************************************)
(* Model of pybbfmm/orthantree.py: the level-synchronous construction of   *)
(* an orthant tree over source and target points (orthantree), the box     *)
(* navigator (child_boxes, neighbour_boxes) and the interaction scheme     *)
(* (u_scheme, v_scheme, w_pairs, interaction_scheme).                      *)
(*                                                                         *)
(* Tensors are sequences; box ids are 0-based as in the code and a tensor  *)
(* is read with At, which indexes the way Python does (a negative index    *)
(* counts from the end).  Coordinates are the code's coordinates times     *)
(* Scale = 2^MaxDepth, so that every center down to depth MaxDepth is an   *)
(* integer: center_offsets/2**depth becomes center_offsets*(Scale/2^depth).*)
(***************************************************************************)
EXTENDS Integers, Sequences, FiniteSets, TLC

VARIABLES D, sources, targets, capacity, tree, indices, depth, depthcounts,
          pc, result, scheme

vars == <<D, sources, targets, capacity, tree, indices, depth, depthcounts,
          pc, result, scheme>>

-----------------------------------------------------------------------------
(* Bounds of the model *)

\* the subdivision loop is followed for at most MaxDepth rounds
MaxDepth == 3
\* at most MaxSources source points and MaxTargets target points
MaxSources == 3
MaxTargets == 2
\* capacity ranges over 1..MaxCapacity
MaxCapacity == 2

Scale == 2^MaxDepth

Dims == {1, 2}

\* The positions points are drawn from (already scaled coordinates).
SourcePositions(dim) ==
    IF dim = 1 THEN << <<-7>>, <<-1>>, <<0>>, <<3>> >>
    ELSE << <<1, -7>>, <<3, -7>>, <<-5, 3>>, <<0, 0>>, <<5, 5>> >>

TargetPositions(dim) ==
    IF dim = 1 THEN << <<-7>>, <<-5>> >>
    ELSE << <<-1, -7>>, <<-3, -7>> >>

\* Point sequences of length at most n over the positions ps, enumerated up
\* to the order of the points (non-decreasing position number).
PointSeqs(ps, n) ==
    LET Ordered(m) == { t \in [1..m -> 1..Len(ps)] :
                          \A i \in 1..m : \A j \in 1..m : i <= j => t[i] <= t[j] }
    IN  UNION { { [i \in 1..m |-> ps[t[i]]] : t \in Ordered(m) } : m \in 0..n }

-----------------------------------------------------------------------------
(* Tensor helpers *)

Abs(x) == IF x < 0 THEN -x ELSE x

\* Python / torch indexing of a 1-d tensor: negative indices wrap around.
At(arr, i) == arr[IF i < 0 THEN Len(arr) + i + 1 ELSE i + 1]

\* x/2 rounded down instead of towards zero
FloorDiv2(x) == x \div 2

\* x/2 followed by .long(): division truncating towards zero.
TruncDiv2(x) == IF x >= 0 THEN x \div 2 ELSE -((-x) \div 2)

\* A tensor built elementwise, evaluated once.
Tensor(f) == f \o <<>>

RECURSIVE SumTo(_, _)
SumTo(f, n) == IF n = 0 THEN 0 ELSE f[n] + SumTo(f, n - 1)

\* seq[start:] for a Python start index that may be negative; -0 is 0.
PySliceFrom(seq, start) ==
    LET n == Len(seq)
        s == IF start < 0 THEN (IF n + start < 0 THEN 0 ELSE n + start)
             ELSE (IF start > n THEN n ELSE start)
    IN  SubSeq(seq, s + 1, n)

\* seq[:stop] for a non-negative stop.
PySliceTo(seq, stop) == SubSeq(seq, 1, IF stop > Len(seq) THEN Len(seq) ELSE stop)

\* torch.unique: the sorted distinct values.
RECURSIVE SortedSeq(_)
SortedSeq(S) ==
    IF S = {} THEN <<>>
    ELSE LET m == CHOOSE x \in S : \A y \in S : x <= y
         IN  <<m>> \o SortedSeq(S \ {m})

Range(seq) == { seq[i] : i \in DOMAIN seq }

Unique(seq) == SortedSeq(Range(seq))

\* return_counts of torch.unique, for one value
Count(seq, v) == Cardinality({ i \in DOMAIN seq : seq[i] = v })

\* return_inverse of torch.unique: 0-based position of v in the sorted values
InverseOf(used, v) == (CHOOSE j \in DOMAIN used : used[j] = v) - 1

-----------------------------------------------------------------------------
(* sets.cartesian_product / sets.flat_cartesian_product *)

\* The element at multi-index idx (0-based, one index per axis) of
\* cartesian_product(xs, dim).
CartesianProductAt(xs, idx) == [i \in DOMAIN idx |-> xs[idx[i] + 1]]

\* Row-major multi-index of the flat position k (0-based).
Unravel(k, n, dim) == [i \in 1..dim |-> (k \div (n^(dim - i))) % n]

\* flat_cartesian_product(xs, dim): the rows of the product, row-major.
FlatCartesianProduct(xs, dim) ==
    [k \in 1..(Len(xs)^dim) |-> CartesianProductAt(xs, Unravel(k - 1, Len(xs), dim))]

-----------------------------------------------------------------------------
(* orthantree *)

\* bases = 2**flip(arange(D))
Bases(dim) == [i \in 1..dim |-> 2^(dim - i)]

\* (subscript_offsets*bases).sum(-1) at one multi-index
SubscriptFlat(sub) ==
    LET dim == Len(sub) IN SumTo([i \in 1..dim |-> sub[i] * Bases(dim)[i]], dim)

Subscripts(dim) == [1..dim -> {0, 1}]

\* the occupancy test letting one point too many pass
OkayOffByOne(idxs, nboxes, cap) ==
    [b \in 1..nboxes |-> IF (b - 1) \in Range(idxs)
                         THEN Count(idxs, b - 1) <= cap + 1 ELSE TRUE]

\* lines 10-11 (12-13): the boxes whose points of one kind fit the capacity
Okay(idxs, nboxes, cap) ==
    [b \in 1..nboxes |-> IF (b - 1) \in Range(idxs)
                         THEN Count(idxs, b - 1) <= cap ELSE TRUE]

\* the test that looks at the sources alone
UnderoccupiedSourcesOnly(source_idxs, target_idxs, terminal, cap) ==
    Tensor(Okay(source_idxs, Len(terminal), cap))

Underoccupied(source_idxs, target_idxs, terminal, cap) ==
    LET source_okay == Okay(source_idxs, Len(terminal), cap)
        target_okay == Okay(target_idxs, Len(terminal), cap)
    IN  Tensor([b \in 1..Len(terminal) |-> source_okay[b] /\ target_okay[b]])

Points == sources \o targets

SourceIdxs(idx) == PySliceTo(idx, Len(sources))

TargetIdxs(idx) == PySliceFrom(idx, -Len(targets))

\* line 51: tree.terminal[used] = underoccupied(...)[used]
MarkedTerminal ==
    LET used == Unique(indices)
        under == Underoccupied(SourceIdxs(indices), TargetIdxs(indices),
                               tree.terminal, capacity)
    IN  Tensor([b \in 1..Len(tree.terminal) |->
                 IF (b - 1) \in Range(used) THEN under[b] ELSE tree.terminal[b]])

\* lines 53-54
PointIsActive(terminal) ==
    LET used == Unique(indices)
        used_is_active == [j \in DOMAIN used |-> ~At(terminal, used[j])]
    IN  Tensor([p \in DOMAIN indices |-> used_is_active[InverseOf(used, indices[p]) + 1]])

\* mask.any()
AnyTrue(mask) == TRUE \in { mask[i] : i \in DOMAIN mask }

RootTree(dim) ==
    [parents  |-> <<-1>>,
     depths   |-> <<0>>,
     centers  |-> << [i \in 1..dim |-> 0] >>,
     terminal |-> <<TRUE>>,
     children |-> << [s \in Subscripts(dim) |-> -1] >>,
     descent  |-> << [i \in 1..dim |-> 0] >>]

\* the offset with a point on the splitting plane sent to the -1 side
PointOffsetStrict(point, center) ==
    LET dim == Len(point)
    IN  SumTo([i \in 1..dim |-> (IF point[i] > center[i] THEN 1 ELSE 0) * (2^(dim - i))],
              dim)

\* point_offset of line 63 for one point and the center of its box
PointOffset(point, center) ==
    LET dim == Len(point)
    IN  SumTo([i \in 1..dim |-> (IF point[i] >= center[i] THEN 1 ELSE 0) * Bases(dim)[i]],
              dim)

\* The tree and the point indices after lines 58-81 of one round.
Subdivided(terminal, newdepth) ==
    LET used == Unique(indices)
        used_is_active == [j \in DOMAIN used |-> ~At(terminal, used[j])]
        point_is_active == PointIsActive(terminal)
        active == SelectSeq(used, LAMBDA b : ~At(terminal, b))
        \* used_is_active.cumsum(0) - used_is_active.long()
        rank == [j \in DOMAIN used |->
                   Cardinality({ i \in 1..(j - 1) : used_is_active[i] })]
        active_inv(p) == rank[InverseOf(used, indices[p]) + 1]
        first_child == [r \in DOMAIN active |-> Len(tree.parents) + (2^D) * (r - 1)]
        child_box(p) == first_child[active_inv(p) + 1]
                          + PointOffset(Points[p], At(tree.centers, active[active_inv(p) + 1]))
        new_indices == Tensor([p \in DOMAIN indices |->
                          IF point_is_active[p] THEN child_box(p) ELSE indices[p]])
        center_offsets == FlatCartesianProduct(<<-1, 1>>, D)
        n_children == Len(active) * (2^D)
        parentOf(j) == active[((j - 1) \div (2^D)) + 1]
        offsetOf(j) == center_offsets[((j - 1) % (2^D)) + 1]
        new_children_tab ==
            Tensor([b \in 1..Len(tree.parents) |->
               IF \E r \in DOMAIN active : active[r] = b - 1
               THEN LET r == CHOOSE r \in DOMAIN active : active[r] = b - 1
                    IN  [s \in Subscripts(D) |-> first_child[r] + SubscriptFlat(s)]
               ELSE tree.children[b]])
    IN  [tree |->
           [parents  |-> tree.parents \o [j \in 1..n_children |-> parentOf(j)],
            depths   |-> tree.depths \o [j \in 1..n_children |-> newdepth],
            centers  |-> tree.centers \o
                           [j \in 1..n_children |->
                              [i \in 1..D |-> At(tree.centers, parentOf(j))[i]
                                               + offsetOf(j)[i] * (Scale \div (2^newdepth))]],
            terminal |-> terminal \o [j \in 1..n_children |-> TRUE],
            children |-> new_children_tab \o
                           [j \in 1..n_children |-> [s \in Subscripts(D) |-> -1]],
            descent  |-> tree.descent \o [j \in 1..n_children |-> offsetOf(j)]],
         indices |-> new_indices,
         n_children |-> n_children]

-----------------------------------------------------------------------------
(* Box navigator *)

\* child_boxes for one box and one descent vector
ChildBoxes(t, index, descent) ==
    LET subscripts == [i \in DOMAIN descent |-> TruncDiv2(descent[i] + 1)]
    IN  At(t.children, index)[subscripts]

Last(seq) == seq[Len(seq)]

\* the liveness test without the test of the direction
LiveIgnoringDirection(was_alive, direction, cur) == was_alive /\ cur >= 0

\* line 118 for one queried box
Live(was_alive, direction, cur) ==
    /\ was_alive
    /\ \E i \in DOMAIN direction : direction[i] # 0
    /\ cur >= 0

\* the descent flipped on every axis, also where the direction is zero
NeighbourDescentFlipAll(descent, direction) == [i \in DOMAIN descent |-> -descent[i]]

\* line 122 for one queried box
NeighbourDescent(descent, direction) ==
    [i \in DOMAIN descent |-> descent[i] * (1 - 2 * Abs(direction[i]))]

\* line 124 for one queried box
NextDirection(descent, direction) ==
    [i \in DOMAIN descent |-> TruncDiv2(descent[i] + direction[i])]

\* The climbing while loop of neighbour_boxes (lines 117-125), over all the
\* queried boxes at once: one call is one iteration.
RECURSIVE Climb(_, _, _, _, _)
Climb(t, current, directions, alive, neighbour_descents) ==
    IF ~AnyTrue(Last(alive))
    THEN [current |-> current, alive |-> alive, neighbour_descents |-> neighbour_descents]
    ELSE LET live == Tensor([j \in DOMAIN current |->
                        Live(Last(alive)[j], directions[j], current[j])])
             descent == Tensor([j \in DOMAIN current |-> At(t.descent, current[j])])
             nd == Tensor([j \in DOMAIN current |->
                        NeighbourDescent(descent[j], directions[j])])
             newdirs == Tensor([j \in DOMAIN current |->
                        NextDirection(descent[j], directions[j])])
             newcur == Tensor([j \in DOMAIN current |->
                        IF live[j] THEN At(t.parents, current[j]) ELSE current[j]])
         IN  Climb(t, newcur, newdirs, Append(alive, live), Append(neighbour_descents, nd))

\* The descending for loop (lines 127-129) from its k-th last iteration on:
\* zip pairs neighbour_descents[k] with alive[k+1].
RECURSIVE Descend(_, _, _, _, _)
Descend(t, current, neighbour_descents, alive, k) ==
    IF k = 0 THEN current
    ELSE LET descent == neighbour_descents[k]
             live == alive[k + 1]
             internal == Tensor([j \in DOMAIN current |->
                            /\ ~At(t.terminal, current[j])
                            /\ current[j] >= 0
                            /\ live[j]])
             newcur == Tensor([j \in DOMAIN current |->
                            IF internal[j] THEN ChildBoxes(t, current[j], descent[j])
                            ELSE current[j]])
         IN  Descend(t, newcur, neighbour_descents, alive, k - 1)

\* neighbour_boxes(tree, indices, direction): raised tells whether the
\* assertion of line 112 failed, boxes is the tensor returned.
NeighbourBoxes(t, idxs, direction) ==
    LET directions == Tensor([j \in DOMAIN idxs |-> direction])
    IN  IF Len(directions) # Len(idxs)
        THEN [raised |-> TRUE, boxes |-> <<>>]
        ELSE LET up == Climb(t, idxs, directions,
                             << Tensor([j \in DOMAIN idxs |-> TRUE]) >>, <<>>)
             IN  [raised |-> FALSE,
                  boxes  |-> Descend(t, up.current, up.neighbour_descents, up.alive,
                                     Len(up.neighbour_descents))]

-----------------------------------------------------------------------------
(* Interaction scheme *)

\* ragged.Ragged(arange(n), depthcounts).slice(d): the ids of the boxes
\* created at depth d, in order.
DepthSlice(counts, d) ==
    LET start == SumTo([i \in 1..d |-> counts[i]], d)
    IN  [j \in 1..counts[d + 1] |-> start + j - 1]

\* Rows of a table with cols columns, row-major: the k-th (1-based) entry's
\* 0-based row and column.
RowOf(k, cols) == (k - 1) \div cols
ColOf(k, cols) == (k - 1) % cols

\* torch.sort(row, descending=True).values over the positions I of row
RECURSIVE SortDescending(_, _)
SortDescending(row, I) ==
    IF I = {} THEN <<>>
    ELSE LET m == CHOOSE i \in I : \A j \in I : row[i] >= row[j]
         IN  <<row[m]>> \o SortDescending(row, I \ {m})

Directions(dim) == FlatCartesianProduct(<<-1, 0, 1>>, dim)

\* line 222: neighbours[b][k] is the neighbour of box b-1 in directions[k];
\* raised tells whether a call of neighbour_boxes failed.
Neighbours(t, ids, directions) ==
    LET calls == [k \in DOMAIN directions |-> NeighbourBoxes(t, ids, directions[k])]
        cols == Tensor([k \in DOMAIN directions |-> calls[k].boxes])
    IN  [raised |-> \E k \in DOMAIN directions : calls[k].raised,
         table  |-> Tensor([b \in DOMAIN ids |->
                       Tensor([k \in DOMAIN directions |-> cols[k][b]])])]

\* the filter without the test of the terminal flags
UKeptAnyBox(t, pr) == pr[1] >= 0 /\ pr[2] >= 0

\* the filter of line 140 for one pair
UKept(t, pr) ==
    /\ pr[1] >= 0 /\ pr[2] >= 0
    /\ At(t.terminal, pr[1]) /\ At(t.terminal, pr[2])

\* u_scheme: the pairs handed to ragged.from_pairs
UScheme(t, ids, neighbours) ==
    LET ncols == Len(neighbours[1])
        sorted == Tensor([b \in DOMAIN neighbours |->
                     SortDescending(neighbours[b], DOMAIN neighbours[b])])
        unique_neighbours ==
            Tensor([b \in DOMAIN sorted |->
               Tensor([c \in 1..ncols |->
                  IF c > 1 /\ sorted[b][c] = sorted[b][c - 1] THEN -1 ELSE sorted[b][c]])])
        all_pairs == Tensor([k \in 1..(Len(ids) * ncols) |->
                        << ids[RowOf(k, ncols) + 1],
                           unique_neighbours[RowOf(k, ncols) + 1][ColOf(k, ncols) + 1] >>])
        pairs == SelectSeq(all_pairs, LAMBDA pr : UKept(t, pr))
        partner_is_larger(pr) == At(t.depths, pr[1]) > At(t.depths, pr[2])
        larger == SelectSeq(pairs, partner_is_larger)
        smaller_partners == [j \in DOMAIN larger |-> << larger[j][2], larger[j][1] >>]
    IN  pairs \o smaller_partners

\* offset of line 163; the numerator is even, the division exact
VOffset(own_descent, direction, friend_descent) ==
    [i \in DOMAIN direction |->
       (-own_descent[i] + 4 * direction[i] + friend_descent[i]) \div 2]

\* the test that skips only the zero offset
VSkippedStrict(offset) == \A i \in DOMAIN offset : Abs(offset[i]) < 1

\* the test of line 164
VSkipped(offset) == \A i \in DOMAIN offset : Abs(offset[i]) <= 1

\* v_scheme: the list of results, one per direction, friend descent, own
\* descent and depth that line 164 does not skip, in the order of the loops.
VScheme(t, counts, directions, neighbours) ==
    LET dim == Len(directions[1])
        nd == 2^dim
        descents == FlatCartesianProduct(<<-1, 1>>, dim)
        nonzero == SelectSeq([k \in DOMAIN directions |-> k],
                             LAMBDA k : \E i \in 1..dim : directions[k][i] # 0)
        domain == Len(counts)
        loops == [j \in 1..(Len(nonzero) * nd * nd * domain) |->
                    [d     |-> nonzero[((j - 1) \div (nd * nd * domain)) + 1],
                     fd    |-> descents[(((j - 1) \div (nd * domain)) % nd) + 1],
                     od    |-> descents[(((j - 1) \div domain) % nd) + 1],
                     depth |-> (j - 1) % domain]]
        kept == SelectSeq(loops, LAMBDA l : ~VSkipped(VOffset(l.od, directions[l.d], l.fd)))
        colleagues(d) == [b \in DOMAIN t.parents |-> At(neighbours, t.parents[b])[d]]
        friend(l, b) == ChildBoxes(t, colleagues(l.d)[b + 1], l.fd)
        mask(l, b) == /\ At(t.descent, b) = l.od
                      /\ ~At(t.terminal, colleagues(l.d)[b + 1])
                      /\ colleagues(l.d)[b + 1] >= 0
        group(l) ==
            LET s == DepthSlice(counts, l.depth)
                boxes == SelectSeq(s, LAMBDA b : mask(l, b))
            IN  [boxes   |-> boxes,
                 friends |-> Tensor([j \in DOMAIN boxes |-> friend(l, boxes[j])]),
                 offset  |-> VOffset(l.od, directions[l.d], l.fd),
                 depth   |-> l.depth]
    IN  Tensor([j \in DOMAIN kept |-> group(kept[j])])

\* the children of a box as tree.children[box].reshape(2**D)
FlatChildren(t, box) ==
    LET dim == Len(t.descent[1])
    IN  [k \in 1..(2^dim) |-> At(t.children, box)[Unravel(k - 1, 2, dim)]]

\* the test with all() for any()
DistantAll(t, friend, dir) ==
    \A i \in DOMAIN dir : At(t.descent, friend)[i] = dir[i]

\* the test of line 198 for one friend
Distant(t, friend, dir) ==
    \E i \in DOMAIN dir : At(t.descent, friend)[i] = dir[i]

\* lines 184-192: the terminal boxes with a non-terminal colleague
WOrigins(t, directions, neighbours) ==
    LET bs == SelectSeq([b \in DOMAIN t.terminal |-> b - 1], LAMBDA b : At(t.terminal, b))
        nb == Len(bs)
        all == [j \in 1..(Len(directions) * nb) |->
                  [origin |-> bs[ColOf(j, nb) + 1],
                   parent |-> At(neighbours, bs[ColOf(j, nb) + 1])[RowOf(j, nb) + 1],
                   dir    |-> directions[RowOf(j, nb) + 1]]]
    IN  SelectSeq(all, LAMBDA e :
           /\ At(t.depths, e.origin) = At(t.depths, e.parent)
           /\ ~At(t.terminal, e.parent))

\* the while loop of lines 196-205, one call per iteration
RECURSIVE WLoop(_, _, _)
WLoop(t, frontier, pairs) ==
    IF frontier = <<>> THEN pairs
    ELSE LET nd == 2^Len(t.descent[1])
             ps == Tensor([j \in 1..(Len(frontier) * nd) |->
                      [origin |-> frontier[RowOf(j, nd) + 1].origin,
                       parent |-> FlatChildren(t, frontier[RowOf(j, nd) + 1].parent)
                                     [ColOf(j, nd) + 1],
                       dir    |-> frontier[RowOf(j, nd) + 1].dir]])
             distant(e) == Distant(t, e.parent, e.dir)
             far == SelectSeq(ps, distant)
             next == SelectSeq(ps, LAMBDA e : ~distant(e) /\ ~At(t.terminal, e.parent))
         IN  WLoop(t, next, pairs \o [j \in DOMAIN far |-> << far[j].origin, far[j].parent >>])

\* w_pairs
WPairs(t, directions, neighbours) ==
    WLoop(t, WOrigins(t, directions, neighbours), <<>>)

Flip(pairs) == [j \in DOMAIN pairs |-> << pairs[j][2], pairs[j][1] >>]

-----------------------------------------------------------------------------
(* State machine *)

NoResult == [sources |-> <<>>, targets |-> <<>>, depths |-> <<>>, id |-> <<>>]

NoScheme == [raised |-> FALSE, neighbours |-> <<>>, directions |-> <<>>,
             w |-> <<>>, x |-> <<>>, u |-> <<>>, v |-> <<>>]

Init ==
    /\ D \in Dims
    /\ sources \in PointSeqs(SourcePositions(D), MaxSources)
    /\ targets \in PointSeqs(TargetPositions(D), MaxTargets)
    /\ capacity \in 1..MaxCapacity
    /\ tree = RootTree(D)
    /\ indices = [p \in 1..(Len(sources) + Len(targets)) |-> 0]
    /\ depth = 0
    /\ depthcounts = <<1>>
    /\ pc = "loop"
    /\ result = NoResult
    /\ scheme = NoScheme

\* One round of the while loop that subdivides (lines 49-83).
Subdivide ==
    /\ pc = "loop"
    /\ AnyTrue(PointIsActive(MarkedTerminal))
    /\ depth < MaxDepth
    /\ LET sub == Subdivided(MarkedTerminal, depth + 1)
       IN  /\ tree' = sub.tree
           /\ indices' = sub.indices
           /\ depthcounts' = Append(depthcounts, sub.n_children)
    /\ depth' = depth + 1
    /\ UNCHANGED <<D, sources, targets, capacity, pc, result, scheme>>

\* The round that breaks out of the loop, and the return (lines 49-56, 85-95).
Return ==
    /\ pc = "loop"
    /\ ~AnyTrue(PointIsActive(MarkedTerminal))
    /\ tree' = [tree EXCEPT !.terminal = MarkedTerminal]
    /\ result' = [sources |-> PySliceTo(indices, Len(sources)),
                  targets |-> PySliceFrom(indices, -Len(targets)),
                  depths  |-> depthcounts,
                  id      |-> [b \in 1..Len(tree.parents) |-> b - 1]]
    /\ pc' = "done"
    /\ UNCHANGED <<D, sources, targets, capacity, indices, depth, depthcounts, scheme>>

\* The loop would run a further round; the model follows it no deeper.
DepthBound ==
    /\ pc = "loop"
    /\ AnyTrue(PointIsActive(MarkedTerminal))
    /\ depth = MaxDepth
    /\ tree' = [tree EXCEPT !.terminal = MarkedTerminal]
    /\ pc' = "bound"
    /\ UNCHANGED <<D, sources, targets, capacity, indices, depth, depthcounts,
                   result, scheme>>

\* interaction_scheme(tree, depths) on the tree orthantree returned
InteractionScheme ==
    /\ pc = "done"
    /\ LET directions == Directions(D)
           nbs == Neighbours(tree, result.id, directions)
           w == WPairs(tree, directions, nbs.table)
       IN  scheme' = [raised     |-> nbs.raised,
                      neighbours |-> nbs.table,
                      directions |-> directions,
                      w |-> w,
                      x |-> Flip(w),
                      u |-> UScheme(tree, result.id, nbs.table),
                      v |-> VScheme(tree, result.depths, directions, nbs.table)]
    /\ pc' = "scheme"
    /\ UNCHANGED <<D, sources, targets, capacity, tree, indices, depth, depthcounts,
                   result>>

Next == Subdivide \/ Return \/ DepthBound \/ InteractionScheme

Spec == Init /\ [][Next]_vars

-----------------------------------------------------------------------------
(* Properties *)

Boxes == 0..(Len(tree.parents) - 1)

Parent(b) == At(tree.parents, b)
Depth(b) == At(tree.depths, b)
Center(b) == At(tree.centers, b)
Descent(b) == At(tree.descent, b)
Terminal(b) == At(tree.terminal, b)

\* half the width of a box at depth k, in scaled coordinates
HalfWidth(k) == Scale \div (2^k)

Built == pc \in {"done", "scheme"}

SourcePoints == 1..Len(sources)
TargetPoints == (Len(sources) + 1)..(Len(sources) + Len(targets))

\* the number of source (target) points currently assigned to box b
SourceCount(b) == Cardinality({ p \in SourcePoints : indices[p] = b })
TargetCount(b) == Cardinality({ p \in TargetPoints : indices[p] = b })

Overfull(b) == SourceCount(b) > capacity \/ TargetCount(b) > capacity

\* the region of box b contains the point pt (the +1 side of a split takes
\* the points on the splitting plane)
Holds(b, pt) ==
    \A i \in 1..D :
        /\ Center(b)[i] - HalfWidth(Depth(b)) <= pt[i]
        /\ \/ pt[i] < Center(b)[i] + HalfWidth(Depth(b))
           \/ pt[i] = Scale /\ Center(b)[i] + HalfWidth(Depth(b)) = Scale

\* C1: when orthantree has returned, every terminal box holds at most
\* capacity source points and at most capacity target points, also when
\* the source set or the target set is empty.
CapacityInvariant ==
    Built => \A b \in Boxes :
                Terminal(b) => SourceCount(b) <= capacity /\ TargetCount(b) <= capacity

\* a returned tree of depth 2 or more built with no targets, holding a
\* terminal box that is exactly full
CapacityWitness ==
    /\ pc = "done" /\ depth >= 2 /\ targets = <<>> /\ capacity = 2
    /\ \E b \in Boxes : Terminal(b) /\ SourceCount(b) = capacity

\* a returned tree built with no sources and split for the targets alone

CapacityTargetsWitness ==
    /\ pc = "done" /\ depth >= 1 /\ sources = <<>>
    /\ \E b \in Boxes : Terminal(b) /\ TargetCount(b) = capacity

\* C2: the returned assignment is index-aligned with the inputs: one entry
\* per source and one per target, entry i being the terminal box that holds
\* input point i; also for an empty target set or an empty source set.
IndexAligned ==
    pc = "done" =>
        /\ Len(result.sources) = Len(sources)
        /\ Len(result.targets) = Len(targets)
        /\ \A i \in DOMAIN result.sources :
              /\ Terminal(result.sources[i])
              /\ Holds(result.sources[i], sources[i])
        /\ \A i \in DOMAIN result.targets :
              /\ i <= Len(targets)
              /\ Terminal(result.targets[i])
              /\ Holds(result.targets[i], targets[i])

\* the regions of two boxes share a face, an edge or a corner and nothing more
Touch(a, b) ==
    /\ \A i \in 1..D :
          Abs(Center(a)[i] - Center(b)[i]) <= HalfWidth(Depth(a)) + HalfWidth(Depth(b))
    /\ \E i \in 1..D :
          Abs(Center(a)[i] - Center(b)[i]) = HalfWidth(Depth(a)) + HalfWidth(Depth(b))

ZeroDirection == [i \in 1..D |-> 0]

\* the position of a direction in the table of directions
DirectionIndex(dir) == CHOOSE k \in DOMAIN Directions(D) : Directions(D)[k] = dir

NonZeroDirections == { k \in DOMAIN Directions(D) : Directions(D)[k] # ZeroDirection }

Negated(dir) == [i \in DOMAIN dir |-> -dir[i]]

\* the neighbour of box a recorded in the table for the k-th direction
Neighbour(a, k) == scheme.neighbours[a + 1][k]

\* C5: if the neighbour of a in a non-zero direction d is a box b of the
\* depth of a, then the neighbour of b in direction -d is a.
NeighbourSymmetry ==
    pc = "scheme" =>
        \A a \in Boxes : \A k \in NonZeroDirections :
            LET b == Neighbour(a, k)
            IN  (b >= 0 /\ Depth(b) = Depth(a)) =>
                    Neighbour(b, DirectionIndex(Negated(Directions(D)[k]))) = a

\* a same-depth neighbour across a diagonal that lies under another
\* grandparent
NeighbourSymmetryWitness ==
    /\ pc = "scheme" /\ D = 2
    /\ \E a \in Boxes : \E k \in NonZeroDirections :
          LET b == Neighbour(a, k)
          IN  /\ \A i \in 1..D : Directions(D)[k][i] # 0
              /\ b >= 0 /\ Depth(b) = Depth(a) /\ Depth(a) >= 2
              /\ Parent(Parent(b)) # Parent(Parent(a))

\* the center of the region of box b moved by dir box widths
Displaced(b, dir) == [i \in 1..D |-> Center(b)[i] + 2 * HalfWidth(Depth(b)) * dir[i]]

OutsideDomain(c) == \E i \in 1..D : Abs(c[i]) >= Scale

\* the region of box r contains the region of the depth of b centered at c
Contains(r, c, b) ==
    \A i \in 1..D :
        Abs(Center(r)[i] - c[i]) <= HalfWidth(Depth(r)) - HalfWidth(Depth(b))

\* C6: neighbour_boxes agrees with the geometry: -1 exactly when the region
\* of b moved by d box widths is outside the root; else the box of the same
\* depth at that region when there is one; else the terminal box of smaller
\* depth whose region contains it.
NeighbourMatchesGeometry ==
    pc = "scheme" =>
        \A b \in Boxes : \A k \in NonZeroDirections :
            LET r == Neighbour(b, k)
                c == Displaced(b, Directions(D)[k])
            IN  IF OutsideDomain(c) THEN r = -1
                ELSE IF \E e \in Boxes : Depth(e) = Depth(b) /\ Center(e) = c
                THEN r >= 0 /\ Depth(r) = Depth(b) /\ Center(r) = c
                ELSE /\ r >= 0 /\ Terminal(r) /\ Depth(r) < Depth(b)
                     /\ Contains(r, c, b)

\* the three outcomes in one tree: outside the root, a same-depth box, and
\* a terminal box two levels coarser
NeighbourGeometryWitness ==
    /\ pc = "scheme" /\ D = 2
    /\ \E b \in Boxes : \E k \in NonZeroDirections :
          Depth(b) >= 1 /\ Neighbour(b, k) = -1
    /\ \E b \in Boxes : \E k \in NonZeroDirections :
          Neighbour(b, k) >= 0 /\ Depth(Neighbour(b, k)) = Depth(b) /\ Depth(b) = 3
    /\ \E b \in Boxes : \E k \in NonZeroDirections :
          Neighbour(b, k) >= 0 /\ Depth(Neighbour(b, k)) + 2 <= Depth(b)

\* the descent vector of the child a point of a box centered at c goes to
SideOf(pt, c) == [i \in 1..D |-> IF pt[i] >= c[i] THEN 1 ELSE -1]

\* One subdivision round, for C7: every point of an overfull box p moves to the
\* child c of p on its side of the center of p on every axis; c has parent
\* p, depth one more, center(c) = center(p) + descent(c)/2^depth(c), and is
\* the box child_boxes(p, descent(c)) returns; other points stay.
ReassignedToChild ==
    (pc = "loop" /\ pc' = "loop" /\ depth' = depth + 1) =>
        \A p \in DOMAIN indices :
            LET b == indices[p]
                c == indices'[p]
                side == SideOf(Points[p], Center(b))
            IN  IF Overfull(b)
                THEN /\ c >= Len(tree.parents) /\ c < Len(tree'.parents)
                     /\ At(tree'.descent, c) = side
                     /\ At(tree'.parents, c) = b
                     /\ At(tree'.depths, c) = Depth(b) + 1
                     /\ \A i \in 1..D :
                           At(tree'.centers, c)[i] * (2^At(tree'.depths, c))
                             = Center(b)[i] * (2^At(tree'.depths, c)) + side[i] * Scale
                     /\ ChildBoxes(tree', b, side) = c
                     /\ ~At(tree'.terminal, b) /\ At(tree'.terminal, c)
                ELSE c = b

\* C7, as a property of every step: each subdivision round reassigns the
\* points of the overfull boxes to the children as ReassignedToChild states.
SubdivisionReassigns == [][ReassignedToChild]_vars

\* after two rounds: a point on the center of the root went to a box of
\* depth 2 while another point stayed in its box of depth 1
SubdivisionWitness ==
    /\ pc = "loop" /\ depth = 2 /\ D = 2
    /\ \E p \in DOMAIN indices : \E q \in DOMAIN indices :
          /\ Depth(indices[p]) = 2 /\ Points[p] = Center(0)
          /\ Depth(indices[q]) = 1

\* the entries of the V list: the i-th box of the g-th result
VEntries ==
    UNION { { <<g, i>> : i \in DOMAIN scheme.v[g].boxes } : g \in DOMAIN scheme.v }

\* C8: a V entry pairing box b with friend f under offset o and depth k has
\* depth(b) = depth(f) = k >= 1, parent(f) the non-terminal same-depth
\* neighbour of parent(b) in a non-zero direction d, o = (-descent(b) + 4d +
\* descent(f))/2 = (center(f) - center(b)) in box widths of depth k, and a
\* component of o of magnitude above 1; there is no entry for the root.
VEntriesSeparated ==
    pc = "scheme" =>
        \A e \in VEntries :
            LET g == scheme.v[e[1]]
                b == g.boxes[e[2]]
                f == g.friends[e[2]]
                o == g.offset
            IN  /\ b \in Boxes /\ f \in Boxes /\ b # 0
                /\ Depth(b) = g.depth /\ Depth(f) = g.depth /\ g.depth >= 1
                /\ \E k \in NonZeroDirections :
                      LET col == Neighbour(Parent(b), k)
                      IN  /\ col >= 0 /\ ~Terminal(col)
                          /\ Depth(col) = Depth(Parent(b))
                          /\ Parent(f) = col
                          /\ \A i \in 1..D :
                                2 * o[i] = -Descent(b)[i] + 4 * Directions(D)[k][i]
                                             + Descent(f)[i]
                /\ \A i \in 1..D :
                      Center(f)[i] - Center(b)[i] = o[i] * 2 * HalfWidth(g.depth)
                /\ \E i \in 1..D : Abs(o[i]) > 1

\* V entries at depth 3, and at depth 2 across a diagonal
VEntriesWitness ==
    /\ pc = "scheme" /\ D = 2
    /\ \E e \in VEntries : scheme.v[e[1]].depth = 3
    /\ \E e \in VEntries :
          /\ scheme.v[e[1]].depth = 2
          /\ Abs(scheme.v[e[1]].offset[1]) = 3

\* more than capacity source points, or target points, share one position
CoincidentCluster ==
    \/ \E j \in DOMAIN sources : Count(sources, sources[j]) > capacity
    \/ \E j \in DOMAIN targets : Count(targets, targets[j]) > capacity

\* C9: with more than capacity coincident source (or target) points the
\* loop never reaches its stop condition: in every round some occupied box
\* is overfull and is split, and orthantree does not return.
CoincidentNeverStops ==
    CoincidentCluster =>
        /\ pc \in {"loop", "bound"}
        /\ \E p \in DOMAIN indices :
              /\ Overfull(indices[p])
              /\ ~At(MarkedTerminal, indices[p])
              /\ PointIsActive(MarkedTerminal)[p]

\* a cluster of coincident targets followed through every round of the model
CoincidentWitness ==
    /\ pc = "bound" /\ depth = MaxDepth /\ D = 2
    /\ \E j \in DOMAIN targets : Count(targets, targets[j]) > capacity
    /\ \A j \in DOMAIN sources : Count(sources, sources[j]) <= capacity

RECURSIVE AncestorsOrSelf(_)
AncestorsOrSelf(b) == IF b < 0 THEN {} ELSE {b} \cup AncestorsOrSelf(Parent(b))

TerminalBoxes == { b \in Boxes : Terminal(b) }

\* the number of entries of the four lists that realise the pair (t, s)
Realisations(t, s, ventries) ==
    Cardinality({ j \in DOMAIN scheme.u : scheme.u[j] = <<t, s>> })
  + Cardinality({ e \in ventries :
                    /\ scheme.v[e[1]].boxes[e[2]] \in AncestorsOrSelf(t)
                    /\ scheme.v[e[1]].friends[e[2]] \in AncestorsOrSelf(s) })
  + Cardinality({ j \in DOMAIN scheme.w :
                    scheme.w[j][1] = t /\ scheme.w[j][2] \in AncestorsOrSelf(s) })
  + Cardinality({ j \in DOMAIN scheme.x :
                    scheme.x[j][1] \in AncestorsOrSelf(t) /\ scheme.x[j][2] = s })

\* C10: every ordered pair (t, s) of terminal boxes, t = s included, is
\* realised by exactly one entry of the lists: s in U[t]; a V entry of an
\* ancestor-or-self of t with an ancestor-or-self of s as friend; an
\* ancestor-or-self of s in W[t]; or s in X[t'] for an ancestor-or-self t'
\* of t.
ExactlyOnceCoverage ==
    pc = "scheme" =>
        LET ventries == VEntries
        IN  \A t \in TerminalBoxes : \A s \in TerminalBoxes :
                Realisations(t, s, ventries) = 1

\* a scheme with all four lists in use and a W entry found two levels below
\* the colleague
ExactlyOnceWitness ==
    /\ pc = "scheme" /\ D = 2
    /\ scheme.u # <<>> /\ VEntries # {}
    /\ \E j \in DOMAIN scheme.w : Depth(scheme.w[j][2]) >= Depth(scheme.w[j][1]) + 2

====
